---- MODULE Spec2Model ----
(***************************************************************************)
(* Lifecycle manager of src/app.go: App.New / serviceInstance, App.Run and *)
(* App.Stop, together with the errgroup the tasks of Run are spawned into, *)
(* the two contexts (a.ctx and the group's ctx derived from it), the       *)
(* signal channel, and the servers and the registry as the environment.    *)
(***************************************************************************)
EXTENDS Integers, Sequences, FiniteSets, TLC

\* ------------------------------------------------------------------ bounds
NumServers == 2
MaxSignals == 2
MaxExtStops == 1
MaxEndpoints == 2

Servers == 1..NumServers
Callers == {"watcher", "ext"}
EndpointNames == {"a", "b"}

\* ------------------------------------------------------------------ errors
\* error values: one record shape, so that any two of them compare
Nil == [kind |-> "nil", srv |-> 0]
Canceled == [kind |-> "Canceled", srv |-> 0]
DeadlineExceeded == [kind |-> "DeadlineExceeded", srv |-> 0]
RegErr == [kind |-> "register", srv |-> 0]
DeregErr == [kind |-> "deregister", srv |-> 0]
\* not an error: no call has returned yet
NoRet == [kind |-> "none", srv |-> 0]
StartErr(i) == [kind |-> "start", srv |-> i]
StopErr(i) == [kind |-> "stop", srv |-> i]

\* the reasons with which the parent context of a.ctx can end
ParentReasons == {Canceled, DeadlineExceeded}
\* what srv.Start() and srv.Stop() of server i can return
StartOutcomes(i) == {Nil, StartErr(i)}
StopOutcomes(i) == {Nil, StopErr(i)}

VARIABLES
    registry,      \* a.opts.registry != nil
    appCtx,        \* a.ctx.Err(): Nil while a.ctx is live
    ctx,           \* Err() of the group's ctx, derived from a.ctx
    gErr,          \* the errgroup's err: the first non-nil task result
    runPc,         \* where Run is: idle, spawn, register, wait, returned
    spawnIdx,      \* the server the spawning loop of Run is at
    runRet,        \* what Run returned
    regFailed,     \* Register returned an error
    regCalls,      \* calls of registry.Register
    startTask,     \* per server: none, spawned, running, done
    startOut,      \* per server: what srv.Start() returned
    stopTask,      \* per server: none, blocked, calling, done
    stopOut,       \* per server: what srv.Stop() returned
    stopCalls,     \* per server: invocations of srv.Stop()
    firstFail,     \* the first non-nil result a start- or stop-task ended with
    startAfterStop, \* per server: srv.Stop() had been invoked when srv.Start() was
    watcher,       \* the signal watcher: none, select, done
    notified,      \* signal.Notify(c, ...) has been called
    sigChan,       \* signals buffered in c (capacity 1)
    sigSent,       \* signals delivered to the process
    sigRecv,       \* signals the watcher has taken from c
    stopPc,        \* per caller of a.Stop: idle, or dereg (Deregister outstanding)
    stopRet,       \* per caller: what its last a.Stop returned
    stopInv,       \* invocations of a.Stop
    extStops,      \* invocations of a.Stop by another thread
    deregCalls,    \* calls of registry.Deregister
    deregOk,       \* calls of registry.Deregister that returned nil
    optEndpoints,  \* o.endpoints as configured
    srvEndpoint,   \* per server: what srv.Endpoint() returns
    endpoints,     \* o.endpoints inside serviceInstance, then instance.Endpoints
    endpointCalls, \* per server: calls of srv.Endpoint()
    newPc,         \* where serviceInstance is: start, loop, done
    newIdx         \* the server the loop of serviceInstance is at

ctxVars == <<appCtx, ctx>>
runCtl == <<runPc, spawnIdx, runRet, regFailed, regCalls>>
taskVars == <<startTask, startOut, stopTask, stopOut, stopCalls, firstFail,
             startAfterStop>>
sigVars == <<notified, sigChan, sigSent, sigRecv>>
stopVars == <<stopPc, stopRet, stopInv, extStops, deregCalls, deregOk>>
runVars == <<registry, ctxVars, gErr, runCtl, taskVars, watcher, sigVars, stopVars>>
newVars == <<optEndpoints, srvEndpoint, endpoints, endpointCalls, newPc, newIdx>>
vars == <<runVars, newVars>>

\* ------------------------------------------------------- serviceInstance
\* sequences over S of length at most n
RECURSIVE SeqsUpTo(_, _)
SeqsUpTo(S, n) ==
    IF n = 0 THEN {<<>>}
    ELSE LET shorter == SeqsUpTo(S, n - 1)
         IN shorter \cup {Append(s, x) : s \in {t \in shorter : Len(t) = n - 1}, x \in S}

\* a result of srv.Endpoint(): the endpoint e and whether err == nil
EndpointResults == [e : EndpointNames, ok : BOOLEAN]

\* the loop of serviceInstance over o.servers from server i on
RECURSIVE CollectEndpoints(_, _, _)
CollectEndpoints(acc, res, i) ==
    IF i > NumServers THEN acc
    ELSE CollectEndpoints(IF res[i].ok THEN Append(acc, res[i].e) ELSE acc, res, i + 1)

\* instance.Endpoints as serviceInstance computes it
serviceInstance(opt, res) ==
    IF Len(opt) = 0 THEN CollectEndpoints(opt, res, 1) ELSE opt

\* if len(o.endpoints) == 0 { ... }
NewCheck ==
    /\ newPc = "start"
    /\ newPc' = IF Len(endpoints) = 0 THEN "loop" ELSE "done"
    /\ UNCHANGED <<optEndpoints, srvEndpoint, endpoints, endpointCalls, newIdx>>
    /\ UNCHANGED runVars

\* mutant of NewQuery: the endpoint is appended whether or not err == nil
NewQueryKeepsFailed ==
    /\ newPc = "loop"
    /\ newIdx <= NumServers
    /\ endpointCalls' = [endpointCalls EXCEPT ![newIdx] = @ + 1]
    /\ endpoints' = Append(endpoints, srvEndpoint[newIdx].e)
    /\ newIdx' = newIdx + 1
    /\ UNCHANGED <<optEndpoints, srvEndpoint, newPc>>
    /\ UNCHANGED runVars

\* one iteration of: for _, srv := range o.servers { ... }
NewQuery ==
    /\ newPc = "loop"
    /\ newIdx <= NumServers
    /\ endpointCalls' = [endpointCalls EXCEPT ![newIdx] = @ + 1]
    /\ endpoints' = IF srvEndpoint[newIdx].ok
                    THEN Append(endpoints, srvEndpoint[newIdx].e)
                    ELSE endpoints
    /\ newIdx' = newIdx + 1
    /\ UNCHANGED <<optEndpoints, srvEndpoint, newPc>>
    /\ UNCHANGED runVars

\* the loop is over: return &registry.ServiceInstance{...}
NewReturn ==
    /\ newPc = "loop"
    /\ newIdx > NumServers
    /\ newPc' = "done"
    /\ UNCHANGED <<optEndpoints, srvEndpoint, endpoints, endpointCalls, newIdx>>
    /\ UNCHANGED runVars

\* ------------------------------------------------------------- contexts
\* mutant of Cancel: a later cancel overwrites the reason
CancelOverwrites(c, reason) == reason

\* cancelling a context: the first reason stays, a later cancel is a no-op
Cancel(c, reason) == IF c = Nil THEN reason ELSE c

\* a.cancel(): cancels a.ctx and, with it, the group's ctx derived from it
AppCancel(reason) ==
    /\ appCtx' = Cancel(appCtx, reason)
    /\ ctx' = Cancel(ctx, reason)

\* the errgroup's cancel: cancels the group's ctx only
GroupCancel ==
    /\ ctx' = Cancel(ctx, Canceled)
    /\ UNCHANGED appCtx

\* a server task ends with err: the first non-nil one is the first failure
FirstOf(first, err) == IF first = Nil THEN err ELSE first

\* mutant of GroupDone: the first err is kept but the group's ctx is not cancelled
GroupDoneNoCancel(err) ==
    IF err # Nil /\ gErr = Nil
    THEN gErr' = err /\ UNCHANGED <<appCtx, ctx>>
    ELSE UNCHANGED <<gErr, appCtx, ctx>>

\* a task spawned with g.Go ends with err: the first non-nil err is kept and
\* cancels the group's ctx
GroupDone(err) ==
    IF err # Nil /\ gErr = Nil
    THEN gErr' = err /\ GroupCancel
    ELSE UNCHANGED <<gErr, appCtx, ctx>>

\* the parent context given to New ends (cancelled, or its deadline passed)
ParentDone(reason) ==
    /\ appCtx = Nil
    /\ AppCancel(reason)
    /\ UNCHANGED <<registry, gErr, runCtl, taskVars, watcher, sigVars, stopVars>>
    /\ UNCHANGED newVars

\* ------------------------------------------------------------------ Run
\* g, ctx := errgroup.WithContext(a.ctx)
RunBegin ==
    /\ runPc = "idle"
    /\ runPc' = "spawn"
    /\ UNCHANGED <<spawnIdx, runRet, regFailed, regCalls>>
    /\ UNCHANGED <<registry, ctxVars, gErr, taskVars, watcher, sigVars, stopVars>>
    /\ UNCHANGED newVars

\* one iteration of the loop over a.opts.servers: the stop-task and the
\* start-task of the server are spawned with g.Go
RunSpawn ==
    /\ runPc = "spawn"
    /\ spawnIdx <= NumServers
    /\ stopTask' = [stopTask EXCEPT ![spawnIdx] = "blocked"]
    /\ startTask' = [startTask EXCEPT ![spawnIdx] = "spawned"]
    /\ spawnIdx' = spawnIdx + 1
    /\ UNCHANGED <<runPc, runRet, regFailed, regCalls, startOut, stopOut, stopCalls,
                   firstFail, startAfterStop>>
    /\ UNCHANGED <<registry, ctxVars, gErr, watcher, sigVars, stopVars>>
    /\ UNCHANGED newVars

\* c := make(chan os.Signal, 1); signal.Notify(c, ...); g.Go(watcher); Run
\* goes on to g.Wait()
SpawnWatcher ==
    /\ notified' = TRUE
    /\ watcher' = "select"
    /\ runPc' = "wait"
    /\ UNCHANGED <<sigChan, sigSent, sigRecv>>

\* mutant of RunRegister: the watcher is spawned before Register is called
RunRegisterAfterWatcher ==
    /\ runPc = "spawn"
    /\ spawnIdx > NumServers
    /\ IF registry
       THEN /\ runPc' = "register"
            /\ regCalls' = regCalls + 1
            /\ notified' = TRUE
            /\ watcher' = "select"
            /\ UNCHANGED <<sigChan, sigSent, sigRecv>>
       ELSE /\ SpawnWatcher
            /\ UNCHANGED regCalls
    /\ UNCHANGED <<spawnIdx, runRet, regFailed>>
    /\ UNCHANGED <<registry, ctxVars, gErr, taskVars, stopVars>>
    /\ UNCHANGED newVars

\* after the loop: Register is called if a registry is configured, and else
\* the watcher is spawned at once
RunRegister ==
    /\ runPc = "spawn"
    /\ spawnIdx > NumServers
    /\ IF registry
       THEN /\ runPc' = "register"
            /\ regCalls' = regCalls + 1
            /\ UNCHANGED <<watcher, sigVars>>
       ELSE /\ SpawnWatcher
            /\ UNCHANGED regCalls
    /\ UNCHANGED <<spawnIdx, runRet, regFailed>>
    /\ UNCHANGED <<registry, ctxVars, gErr, taskVars, stopVars>>
    /\ UNCHANGED newVars

\* mutant of RegisterFailed: the token is fired before Run returns the error
RegisterFailedCancels ==
    /\ runPc' = "returned"
    /\ runRet' = RegErr
    /\ regFailed' = TRUE
    /\ AppCancel(Canceled)
    /\ UNCHANGED <<watcher, sigVars>>

\* what Run does when Register returned an error: return err
RegisterFailed ==
    /\ runPc' = "returned"
    /\ runRet' = RegErr
    /\ regFailed' = TRUE
    /\ UNCHANGED <<watcher, sigVars, ctxVars>>

\* Register returns: on an error Run returns it, else the watcher is spawned
RegisterReturns(ok) ==
    /\ runPc = "register"
    /\ IF ok
       THEN /\ SpawnWatcher
            /\ UNCHANGED <<runRet, regFailed, ctxVars>>
       ELSE RegisterFailed
    /\ UNCHANGED <<spawnIdx, regCalls>>
    /\ UNCHANGED <<registry, gErr, taskVars, stopVars>>
    /\ UNCHANGED newVars

\* mutant of AllTasksDone: the stop-tasks are not waited for
AllButStopTasksDone ==
    /\ \A i \in Servers : startTask[i] = "done"
    /\ watcher = "done"

\* mutant of AllTasksDone: the start-tasks are not waited for
AllButStartTasksDone ==
    /\ \A i \in Servers : stopTask[i] = "done"
    /\ watcher = "done"

\* g.Wait() returns once every task spawned into the group has ended
AllTasksDone ==
    /\ \A i \in Servers : startTask[i] = "done" /\ stopTask[i] = "done"
    /\ watcher = "done"

\* mutant of WaitResult: context.Canceled is returned like any error
WaitResultUnfiltered(err) == err

\* if err := g.Wait(); err != nil && !errors.Is(err, context.Canceled)
WaitResult(err) == IF err # Nil /\ err # Canceled THEN err ELSE Nil

\* mutant of RunWait: Run deregisters the instance before it returns
RunWaitDeregisters ==
    /\ runPc = "wait"
    /\ AllTasksDone
    /\ GroupCancel
    /\ runRet' = WaitResult(gErr)
    /\ runPc' = "returned"
    /\ deregCalls' = IF registry THEN deregCalls + 1 ELSE deregCalls
    /\ UNCHANGED <<stopPc, stopRet, stopInv, extStops, deregOk>>
    /\ UNCHANGED <<spawnIdx, regFailed, regCalls>>
    /\ UNCHANGED <<registry, gErr, taskVars, watcher, sigVars>>
    /\ UNCHANGED newVars

\* g.Wait() returns (it cancels the group's ctx) and Run returns
RunWait ==
    /\ runPc = "wait"
    /\ AllTasksDone
    /\ GroupCancel
    /\ runRet' = WaitResult(gErr)
    /\ runPc' = "returned"
    /\ UNCHANGED <<spawnIdx, regFailed, regCalls>>
    /\ UNCHANGED <<registry, gErr, taskVars, watcher, sigVars, stopVars>>
    /\ UNCHANGED newVars

\* ---------------------------------------------------------------- tasks
\* mutant of StopTaskReady: the stop-task does not wait for ctx.Done()
StopTaskNoWait(i) == stopTask[i] = "blocked"

\* <-ctx.Done() of a stop-task
StopTaskReady(i) == stopTask[i] = "blocked" /\ ctx # Nil

\* the stop-task of server i passes <-ctx.Done() and calls srv.Stop()
StopTaskCall(i) ==
    /\ StopTaskReady(i)
    /\ stopTask' = [stopTask EXCEPT ![i] = "calling"]
    /\ stopCalls' = [stopCalls EXCEPT ![i] = @ + 1]
    /\ UNCHANGED <<startTask, startOut, stopOut, firstFail, startAfterStop>>
    /\ UNCHANGED <<registry, ctxVars, gErr, runCtl, watcher, sigVars, stopVars>>
    /\ UNCHANGED newVars

\* srv.Stop() of server i returns out and the stop-task ends with it
StopTaskReturn(i, out) ==
    /\ stopTask[i] = "calling"
    /\ stopTask' = [stopTask EXCEPT ![i] = "done"]
    /\ stopOut' = [stopOut EXCEPT ![i] = out]
    /\ firstFail' = FirstOf(firstFail, out)
    /\ GroupDone(out)
    /\ UNCHANGED <<startTask, startOut, stopCalls, startAfterStop>>
    /\ UNCHANGED <<registry, runCtl, watcher, sigVars, stopVars>>
    /\ UNCHANGED newVars

\* the start-task of server i calls srv.Start()
StartTaskCall(i) ==
    /\ startTask[i] = "spawned"
    /\ startTask' = [startTask EXCEPT ![i] = "running"]
    /\ startAfterStop' = [startAfterStop EXCEPT ![i] = stopCalls[i] > 0]
    /\ UNCHANGED <<startOut, stopTask, stopOut, stopCalls, firstFail>>
    /\ UNCHANGED <<registry, ctxVars, gErr, runCtl, watcher, sigVars, stopVars>>
    /\ UNCHANGED newVars

\* srv.Start() of server i returns out and the start-task ends with it
StartTaskReturn(i, out) ==
    /\ startTask[i] = "running"
    /\ startTask' = [startTask EXCEPT ![i] = "done"]
    /\ startOut' = [startOut EXCEPT ![i] = out]
    /\ firstFail' = FirstOf(firstFail, out)
    /\ GroupDone(out)
    /\ UNCHANGED <<stopTask, stopOut, stopCalls, startAfterStop>>
    /\ UNCHANGED <<registry, runCtl, watcher, sigVars, stopVars>>
    /\ UNCHANGED newVars

\* ----------------------------------------------------------------- Stop
\* mutant of StopEnter: without a registry nil is returned without a.cancel()
StopEnterNoCancel(c) ==
    /\ stopInv' = stopInv + 1
    /\ IF registry
       THEN /\ stopPc' = [stopPc EXCEPT ![c] = "dereg"]
            /\ deregCalls' = deregCalls + 1
            /\ UNCHANGED <<stopRet, ctxVars>>
       ELSE /\ stopRet' = [stopRet EXCEPT ![c] = Nil]
            /\ UNCHANGED <<stopPc, deregCalls, ctxVars>>
    /\ UNCHANGED deregOk

\* mutant of StopEnter: a Stop that finds the token fired returns nil at once
StopEnterOnce(c) ==
    /\ stopInv' = stopInv + 1
    /\ IF registry /\ appCtx = Nil
       THEN /\ stopPc' = [stopPc EXCEPT ![c] = "dereg"]
            /\ deregCalls' = deregCalls + 1
            /\ UNCHANGED <<stopRet, ctxVars>>
       ELSE /\ AppCancel(Canceled)
            /\ stopRet' = [stopRet EXCEPT ![c] = Nil]
            /\ UNCHANGED <<stopPc, deregCalls>>
    /\ UNCHANGED deregOk

\* a.Stop() is entered by caller c: with a registry Deregister is called and
\* is outstanding; without one a.cancel() is called and Stop returns nil
StopEnter(c) ==
    /\ stopInv' = stopInv + 1
    /\ IF registry
       THEN /\ stopPc' = [stopPc EXCEPT ![c] = "dereg"]
            /\ deregCalls' = deregCalls + 1
            /\ UNCHANGED <<stopRet, ctxVars>>
       ELSE /\ AppCancel(Canceled)
            /\ stopRet' = [stopRet EXCEPT ![c] = Nil]
            /\ UNCHANGED <<stopPc, deregCalls>>
    /\ UNCHANGED deregOk

\* mutant of StopDeregisterFailed: a.cancel() is called before the error is returned
StopDeregisterFailedCancels(c) ==
    /\ stopRet' = [stopRet EXCEPT ![c] = DeregErr]
    /\ AppCancel(Canceled)
    /\ UNCHANGED deregOk

\* if err := Deregister(...); err != nil { return err }: the token is left alone
StopDeregisterFailed(c) ==
    /\ stopRet' = [stopRet EXCEPT ![c] = DeregErr]
    /\ UNCHANGED <<ctxVars, deregOk>>

\* mutant of StopDeregistered: nil is returned without a.cancel()
StopDeregisteredNoCancel(c) ==
    /\ stopRet' = [stopRet EXCEPT ![c] = Nil]
    /\ deregOk' = deregOk + 1
    /\ UNCHANGED ctxVars

\* Deregister returned nil: a.cancel(); return nil
StopDeregistered(c) ==
    /\ AppCancel(Canceled)
    /\ stopRet' = [stopRet EXCEPT ![c] = Nil]
    /\ deregOk' = deregOk + 1

\* the Deregister that caller c's a.Stop() waits for returns, and Stop returns
DeregisterReturns(c, ok) ==
    /\ stopPc[c] = "dereg"
    /\ stopPc' = [stopPc EXCEPT ![c] = "idle"]
    /\ IF ok THEN StopDeregistered(c) ELSE StopDeregisterFailed(c)
    /\ UNCHANGED <<stopInv, extStops, deregCalls>>
    /\ UNCHANGED <<registry, gErr, runCtl, taskVars, watcher, sigVars>>
    /\ UNCHANGED newVars

\* another thread calls a.Stop()
ExtStop ==
    /\ extStops < MaxExtStops
    /\ stopPc["ext"] = "idle"
    /\ extStops' = extStops + 1
    /\ StopEnter("ext")
    /\ UNCHANGED <<registry, gErr, runCtl, taskVars, watcher, sigVars>>
    /\ UNCHANGED newVars

\* ------------------------------------------------------- signal watcher
\* a configured signal is delivered to the process: signal.Notify's send to c
\* does not block, a signal that finds c full is dropped
Signal ==
    /\ notified
    /\ sigSent < MaxSignals
    /\ sigSent' = sigSent + 1
    /\ sigChan' = 1
    /\ UNCHANGED <<notified, sigRecv>>
    /\ UNCHANGED <<registry, ctxVars, gErr, runCtl, taskVars, watcher, stopVars>>
    /\ UNCHANGED newVars

\* a configured signal comes before signal.Notify was called: it is not sent
\* to c, and what the runtime does with it by default (for the default
\* signals the process exits, which ends the behaviour) is none of Run's doing
EarlySignal ==
    /\ ~notified
    /\ sigSent < MaxSignals
    /\ sigSent' = sigSent + 1
    /\ UNCHANGED <<notified, sigChan, sigRecv>>
    /\ UNCHANGED <<registry, ctxVars, gErr, runCtl, taskVars, watcher, stopVars>>
    /\ UNCHANGED newVars

\* the watcher is at its select (not inside a.Stop)
WatcherAtSelect == watcher = "select" /\ stopPc["watcher"] = "idle"

\* case <-ctx.Done(): return ctx.Err()
WatcherDone ==
    /\ WatcherAtSelect
    /\ ctx # Nil
    /\ watcher' = "done"
    /\ GroupDone(ctx)
    /\ UNCHANGED <<registry, runCtl, taskVars, sigVars, stopVars>>
    /\ UNCHANGED newVars

\* case <-c: a.Stop()
WatcherSignal ==
    /\ WatcherAtSelect
    /\ sigChan = 1
    /\ sigChan' = 0
    /\ sigRecv' = sigRecv + 1
    /\ StopEnter("watcher")
    /\ UNCHANGED <<notified, sigSent, extStops>>
    /\ UNCHANGED <<registry, gErr, runCtl, taskVars, watcher>>
    /\ UNCHANGED newVars

\* ------------------------------------------------------- specifications
\* the state New leaves, but for the configuration
Constructed ==
    /\ appCtx = Nil
    /\ ctx = Nil
    /\ gErr = Nil
    /\ runPc = "idle"
    /\ spawnIdx = 1
    /\ runRet = NoRet
    /\ regFailed = FALSE
    /\ regCalls = 0
    /\ startTask = [i \in Servers |-> "none"]
    /\ startOut = [i \in Servers |-> NoRet]
    /\ stopTask = [i \in Servers |-> "none"]
    /\ stopOut = [i \in Servers |-> NoRet]
    /\ stopCalls = [i \in Servers |-> 0]
    /\ firstFail = Nil
    /\ startAfterStop = [i \in Servers |-> FALSE]
    /\ watcher = "none"
    /\ notified = FALSE
    /\ sigChan = 0
    /\ sigSent = 0
    /\ sigRecv = 0
    /\ stopPc = [c \in Callers |-> "idle"]
    /\ stopRet = [c \in Callers |-> NoRet]
    /\ stopInv = 0
    /\ extStops = 0
    /\ deregCalls = 0
    /\ deregOk = 0

\* an App as New returns it, with or without a registry; every server
\* reports its endpoint and no endpoint list is configured
Init ==
    /\ registry \in BOOLEAN
    /\ Constructed
    /\ optEndpoints = <<>>
    /\ srvEndpoint = [i \in Servers |-> [e |-> "a", ok |-> TRUE]]
    /\ endpoints = serviceInstance(optEndpoints, srvEndpoint)
    /\ endpointCalls = [i \in Servers |-> 1]
    /\ newPc = "done"
    /\ newIdx = NumServers + 1

Next ==
    \/ RunBegin
    \/ RunSpawn
    \/ RunRegister
    \/ \E ok \in BOOLEAN : RegisterReturns(ok)
    \/ RunWait
    \/ \E i \in Servers : StopTaskCall(i)
    \/ \E i \in Servers : \E out \in StopOutcomes(i) : StopTaskReturn(i, out)
    \/ \E i \in Servers : StartTaskCall(i)
    \/ \E i \in Servers : \E out \in StartOutcomes(i) : StartTaskReturn(i, out)
    \/ \E c \in Callers : \E ok \in BOOLEAN : DeregisterReturns(c, ok)
    \/ ExtStop
    \/ Signal
    \/ EarlySignal
    \/ WatcherDone
    \/ WatcherSignal
    \/ \E reason \in ParentReasons : ParentDone(reason)

Spec == Init /\ [][Next]_vars

\* serviceInstance(options) inside New, on any configuration
InitNew ==
    /\ registry = FALSE
    /\ Constructed
    /\ optEndpoints \in SeqsUpTo(EndpointNames, MaxEndpoints)
    /\ srvEndpoint \in [Servers -> EndpointResults]
    /\ endpoints = optEndpoints
    /\ endpointCalls = [i \in Servers |-> 0]
    /\ newPc = "start"
    /\ newIdx = 1

NextNew ==
    \/ NewCheck
    \/ NewQuery
    \/ NewReturn

SpecNew == InitNew /\ [][NextNew]_vars

\* Scenario B: a registry whose Register and Deregister succeed, servers
\* whose Stop succeeds and whose Start returns nil once Stop was invoked, no
\* other thread calling a.Stop and a parent context that never ends
InitB == Init /\ registry = TRUE

NextB ==
    \/ RunBegin
    \/ RunSpawn
    \/ RunRegister
    \/ RegisterReturns(TRUE)
    \/ RunWait
    \/ \E i \in Servers : StopTaskCall(i)
    \/ \E i \in Servers : StopTaskReturn(i, Nil)
    \/ \E i \in Servers : StartTaskCall(i)
    \/ \E i \in Servers : stopCalls[i] > 0 /\ StartTaskReturn(i, Nil)
    \/ DeregisterReturns("watcher", TRUE)
    \/ Signal
    \/ WatcherDone
    \/ WatcherSignal

\* every goroutine that can take a step takes one in the end, and every call
\* of the well-behaved servers and registry returns; signals need not come
FairB ==
    /\ WF_vars(RunBegin)
    /\ WF_vars(RunSpawn)
    /\ WF_vars(RunRegister)
    /\ WF_vars(RegisterReturns(TRUE))
    /\ WF_vars(RunWait)
    /\ \A i \in Servers : WF_vars(StopTaskCall(i))
    /\ \A i \in Servers : WF_vars(StopTaskReturn(i, Nil))
    /\ \A i \in Servers : WF_vars(StartTaskCall(i))
    /\ \A i \in Servers : WF_vars(stopCalls[i] > 0 /\ StartTaskReturn(i, Nil))
    /\ WF_vars(DeregisterReturns("watcher", TRUE))
    /\ WF_vars(WatcherDone)
    /\ WF_vars(WatcherSignal)

SpecB == InitB /\ [][NextB]_vars /\ FairB

\* Scenario D: no registry, servers whose Stop succeeds and whose Start returns
\* nil once Stop was invoked, no other thread calling a.Stop and a parent
\* context that never ends; signals come as they like
InitD == Init /\ registry = FALSE

NextD ==
    \/ RunBegin
    \/ RunSpawn
    \/ RunRegister
    \/ RunWait
    \/ \E i \in Servers : StopTaskCall(i)
    \/ \E i \in Servers : StopTaskReturn(i, Nil)
    \/ \E i \in Servers : StartTaskCall(i)
    \/ \E i \in Servers : stopCalls[i] > 0 /\ StartTaskReturn(i, Nil)
    \/ Signal
    \/ WatcherDone
    \/ WatcherSignal

\* every goroutine that can take a step takes one in the end, and every call
\* of the well-behaved servers returns; signals need not come
FairD ==
    /\ WF_vars(RunBegin)
    /\ WF_vars(RunSpawn)
    /\ WF_vars(RunRegister)
    /\ WF_vars(RunWait)
    /\ \A i \in Servers : WF_vars(StopTaskCall(i))
    /\ \A i \in Servers : WF_vars(StopTaskReturn(i, Nil))
    /\ \A i \in Servers : WF_vars(StartTaskCall(i))
    /\ \A i \in Servers : WF_vars(stopCalls[i] > 0 /\ StartTaskReturn(i, Nil))
    /\ WF_vars(WatcherDone)
    /\ WF_vars(WatcherSignal)

SpecD == InitD /\ [][NextD]_vars /\ FairD

\* ----------------------------------------------------------------- claims
\* the real (non-cancellation) failures the servers' Start and Stop returned
ServerFailures ==
    {startOut[i] : i \in {j \in Servers : startOut[j] = StartErr(j)}}
        \cup {stopOut[i] : i \in {j \in Servers : stopOut[j] = StopErr(j)}}

\* Run returned from g.Wait(), not from a failed Register
ReturnedFromWait == runPc = "returned" /\ ~regFailed

\* C1: when Run has returned, every configured server's Start call has
\* returned (no start-task is still running), whatever Register did.
C1_RunReturnsAfterStarts ==
    runPc = "returned" => \A i \in Servers : startTask[i] = "done"

\* C2: if a server's Start or Stop returned a real failure during a Run that
\* got past registration, Run does not return success.
C2_RunFailsOnServerFailure ==
    (ReturnedFromWait /\ ServerFailures # {}) => runRet # Nil

\* C3: fail-fast: once a server's Start or Stop has failed the group's ctx
\* has fired; when Run then returns (registration passed) every server's Stop
\* has been invoked, and if nothing but the failure fired the token (a.ctx is
\* still live) Run returns a server failure.
C3_FailFast ==
    ServerFailures # {} =>
        /\ ctx # Nil
        /\ ReturnedFromWait =>
            /\ \A i \in Servers : stopCalls[i] >= 1
            /\ appCtx = Nil => runRet \in ServerFailures

\* C3 witness: scenario A, server 2 failed on Start, server 1 was stopped and
\* its Start then returned nil, Run returned server 2's error
C3_Witness ==
    /\ ~registry
    /\ runPc = "returned"
    /\ appCtx = Nil
    /\ startOut[2] = StartErr(2)
    /\ startOut[1] = Nil
    /\ stopCalls[1] = 1
    /\ runRet = StartErr(2)

\* C4: when Run returns after the watcher has taken a signal, every server's
\* Stop has been invoked exactly once, with or without a registry and however
\* many signals came.
C4_SignalStopsEachServerOnce ==
    (runPc = "returned" /\ sigRecv > 0) => \A i \in Servers : stopCalls[i] = 1

\* C4 witness: Run returned with a registry, after the watcher took two signals
C4_Witness ==
    /\ registry
    /\ runPc = "returned"
    /\ sigRecv = 2
    /\ \A i \in Servers : stopCalls[i] = 1

\* the tasks of the group all ended with nil or with context.Canceled (the
\* watcher ends with ctx.Err())
AllTasksNilOrCanceled ==
    /\ AllTasksDone
    /\ ServerFailures = {}
    /\ ctx = Canceled

\* C5: Run never returns context.Canceled, and when every task of the group
\* ended with success or with the cancellation outcome Run returns nil.
C5_CancellationIsNotAFailure ==
    /\ runPc = "returned" => runRet # Canceled
    /\ (ReturnedFromWait /\ AllTasksNilOrCanceled) => runRet = Nil

\* C5 witness: a shutdown by signal in which the group recorded Canceled and
\* Run returned nil
C5_Witness ==
    /\ runPc = "returned"
    /\ sigRecv > 0
    /\ gErr = Canceled
    /\ AllTasksNilOrCanceled
    /\ runRet = Nil

\* C6: with a registry, entering Stop calls Deregister and leaves the token
\* alone; when that Deregister fails Stop returns its error and both contexts
\* are unchanged; when it succeeds, or with no registry, Stop fires the token
\* and returns nil.
C6_StopDeregistersFirst ==
    [][\A c \in Callers :
        /\ (stopPc[c] = "idle" /\ stopPc'[c] = "dereg") =>
            /\ registry
            /\ deregCalls' = deregCalls + 1
            /\ UNCHANGED ctxVars
        /\ (stopPc[c] = "dereg" /\ stopPc'[c] = "idle" /\ deregOk' = deregOk) =>
            /\ stopRet'[c] = DeregErr
            /\ UNCHANGED ctxVars
        /\ (stopPc[c] = "dereg" /\ stopPc'[c] = "idle" /\ deregOk' # deregOk) =>
            /\ stopRet'[c] = Nil
            /\ appCtx' # Nil
            /\ ctx' # Nil
        /\ (~registry /\ stopInv' # stopInv) =>
            /\ appCtx' # Nil
            /\ ctx' # Nil
            /\ stopRet'[IF extStops' # extStops THEN "ext" ELSE "watcher"] = Nil
    ]_vars

\* C6 witness: a Stop of another thread returned the Deregister error and the
\* token is still live
C6_Witness ==
    /\ registry
    /\ stopPc["ext"] = "idle"
    /\ stopRet["ext"] = DeregErr
    /\ appCtx = Nil
    /\ ctx = Nil

\* C7: a fired token stays fired, with its reason, under every later step;
\* a Stop on a fired token changes neither context, and no server's Stop is
\* ever invoked a second time.
C7_TokenSingleShot ==
    [][/\ appCtx # Nil => appCtx' = appCtx
       /\ ctx # Nil => ctx' = ctx
       /\ (appCtx # Nil /\ (stopInv' # stopInv \/ stopPc' # stopPc)) =>
            UNCHANGED <<ctxVars, stopCalls>>
       /\ \A i \in Servers : stopCalls'[i] <= 1
    ]_vars

\* C7 witness: two Stops have returned nil, so one of them ran its a.cancel()
\* on a token that had fired, after the parent's deadline had fired it first
C7_Witness ==
    /\ appCtx = DeadlineExceeded
    /\ stopInv >= 2
    /\ \A c \in Callers : stopPc[c] = "idle" /\ stopRet[c] = Nil

\* C8: when Register fails Run returns its error at once: that step spawns no
\* watcher, registers no signal channel, fires no context and leaves every
\* task where it is; afterwards there is never a watcher, and no server's Stop
\* is invoked while the group's ctx is live.
C8_RegisterFailureReturns ==
    [][/\ (runPc = "register" /\ runPc' = "returned") =>
            /\ runRet' = RegErr
            /\ UNCHANGED <<ctxVars, gErr, watcher, notified, taskVars>>
       /\ regFailed' =>
            /\ runPc' = "returned"
            /\ runRet' = RegErr
            /\ watcher' = "none"
            /\ ctx' = Nil => \A i \in Servers : stopCalls'[i] = 0
    ]_vars

\* C8 witness: Run returned the Register error while a Start is running, the
\* stop-tasks are blocked and the token is live
C8_Witness ==
    /\ regFailed
    /\ runPc = "returned"
    /\ runRet = RegErr
    /\ ctx = Nil
    /\ \E i \in Servers : startTask[i] = "running"
    /\ \A i \in Servers : stopTask[i] = "blocked" /\ stopCalls[i] = 0

\* C9: scenario B, under fair scheduling: a server's Stop is invoked only
\* after a Deregister has returned nil and the token has fired, the token
\* fires only after a Deregister has returned nil, Run returns only nil and
\* only with every server stopped once, and a delivered signal leads to Run
\* returning nil.
C9_GracefulShutdown ==
    /\ [](\A i \in Servers : stopCalls[i] > 0 => (deregOk > 0 /\ appCtx # Nil))
    /\ [](ctx # Nil => (deregOk > 0 /\ deregCalls > 0))
    /\ [](runPc = "returned" => (runRet = Nil /\ \A i \in Servers : stopCalls[i] = 1))
    /\ (sigSent > 0 ~> (runPc = "returned" /\ runRet = Nil))

\* C9 witness: after one signal and one Deregister, Run returned nil with
\* every server stopped
C9_Witness ==
    /\ runPc = "returned"
    /\ runRet = Nil
    /\ sigSent = 1
    /\ sigRecv = 1
    /\ deregOk = 1
    /\ \A i \in Servers : stopCalls[i] = 1 /\ startOut[i] = Nil

\* the endpoints of the servers whose Endpoint() succeeded, in server order
SucceededEndpoints ==
    LET all == [i \in 1..NumServers |-> srvEndpoint[i]]
        good == SelectSeq(all, LAMBDA r : r.ok)
    IN [k \in 1..Len(good) |-> good[k].e]

\* C10: with no configured endpoint list the instance's endpoints are the
\* successful Endpoint() results in server order, each server queried once;
\* with a non-empty configured list they are that list and no server is
\* queried.
C10_Endpoints ==
    newPc = "done" =>
        IF Len(optEndpoints) = 0
        THEN /\ endpoints = SucceededEndpoints
             /\ \A i \in Servers : endpointCalls[i] = 1
        ELSE /\ endpoints = optEndpoints
             /\ \A i \in Servers : endpointCalls[i] = 0

\* C10 witness: no list configured, the first server's lookup failed and the
\* last one's succeeded
C10_Witness ==
    /\ newPc = "done"
    /\ Len(optEndpoints) = 0
    /\ ~srvEndpoint[1].ok
    /\ srvEndpoint[NumServers].ok
    /\ endpoints # <<>>
    /\ endpointCalls[1] = 1

\* C11: scenario D, under fair scheduling: the watcher invokes Stop at most
\* once per delivered signal and at least once before Run returns, Run returns
\* nothing but nil, once returned it stays returned with that result, and a
\* delivered signal leads to Run returning nil.
C11_RepeatedSignals ==
    /\ [](stopInv = sigRecv /\ sigRecv <= sigSent)
    /\ [](runPc = "returned" => (runRet = Nil /\ stopInv >= 1))
    /\ [][runPc = "returned" => (runPc' = "returned" /\ runRet' = runRet)]_vars
    /\ (sigSent > 0 ~> (runPc = "returned" /\ runRet = Nil))

\* C11 witness: every signal of the burst was taken by the watcher, which
\* invoked Stop for each, and Run returned nil
C11_Witness ==
    /\ ~registry
    /\ sigSent = MaxSignals
    /\ sigRecv = MaxSignals
    /\ stopInv = MaxSignals
    /\ runPc = "returned"
    /\ runRet = Nil

\* nothing but a signal-path Stop could have fired the token so far: a
\* registry is configured, no Deregister has returned nil (so no Stop of the
\* watcher or of another thread got to a.cancel()), no server has failed and
\* the parent context has not ended
OnlyFailedDeregisters ==
    /\ registry
    /\ deregOk = 0
    /\ ServerFailures = {}
    /\ appCtx = Nil

\* the Deregister of the watcher's Stop returns an error
WatcherDeregisterFails ==
    /\ stopPc["watcher"] = "dereg"
    /\ stopPc'["watcher"] = "idle"
    /\ deregOk' = deregOk

\* C12: when the Deregister of the watcher's Stop fails, that step changes
\* neither context, records nothing in the group, moves no task and leaves
\* Run and the watcher where they are; and as long as every Deregister has
\* failed and nothing else cancels, both contexts are live, the watcher is
\* still running, no server's Stop has been invoked and Run has not returned
\* from g.Wait(), however many signals came; so the shutdown proceeds only
\* once a Deregister has returned nil.
C12_StalledShutdown ==
    /\ [][WatcherDeregisterFails =>
            /\ stopRet'["watcher"] = DeregErr
            /\ UNCHANGED <<ctxVars, gErr, watcher, taskVars, runCtl>>]_vars
    /\ [](OnlyFailedDeregisters =>
            /\ ctx = Nil
            /\ gErr = Nil
            /\ watcher # "done"
            /\ \A i \in Servers : stopCalls[i] = 0 /\ stopTask[i] # "done"
            /\ ~ReturnedFromWait
            /\ stopRet["watcher"] \in {NoRet, DeregErr})

\* C12 witness: the watcher took every signal, each Deregister failed and was
\* dropped, and Run is still in g.Wait() with the watcher back at its select
C12_Witness ==
    /\ OnlyFailedDeregisters
    /\ sigRecv = MaxSignals
    /\ deregCalls >= 2
    /\ stopRet["watcher"] = DeregErr
    /\ WatcherAtSelect
    /\ runPc = "wait"
    /\ \A i \in Servers : startTask[i] = "running" /\ stopTask[i] = "blocked"

\* C13: whenever a stop-task has invoked its server's Stop (it is calling it
\* or has ended), the group's ctx has fired; a stop-task that was spawned and
\* finds the ctx live is still blocked.
C13_StopOnlyAfterCancel ==
    \A i \in Servers :
        /\ (stopCalls[i] > 0 \/ stopTask[i] \in {"calling", "done"}) => ctx # Nil
        /\ (ctx = Nil /\ stopTask[i] # "none") => stopTask[i] = "blocked"

\* C13 witness: a stop-task is inside srv.Stop() after a sibling's failure
\* fired the group's ctx while a.ctx is live
C13_Witness ==
    /\ appCtx = Nil
    /\ ctx = Canceled
    /\ gErr = StartErr(2)
    /\ stopTask[1] = "calling"
    /\ stopCalls[1] = 1

\* C14: when two or more server Start/Stop calls failed during a Run that got
\* past registration, Run returns the failure of the task that ended first
\* among them, and Run never returns a server failure other than that first
\* one.
C14_FirstFailureWins ==
    /\ (ReturnedFromWait /\ Cardinality(ServerFailures) >= 2) => runRet = firstFail
    /\ (ReturnedFromWait /\ runRet \in ServerFailures) => runRet = firstFail

\* the Register and Deregister calls that are outstanding
OutstandingRegistryCalls ==
    (IF runPc = "register" THEN 1 ELSE 0)
        + Cardinality({c \in Callers : stopPc[c] = "dereg"})

\* C15: at most one Register or Deregister call is outstanding, counting
\* Run's Register, the watcher's Stop and the Stop of another thread.
C15_OneRegistryCall == OutstandingRegistryCalls <= 1

\* the registry calls of Run and of its watcher that are outstanding
OutstandingCallsOfRun ==
    (IF runPc = "register" THEN 1 ELSE 0)
        + (IF stopPc["watcher"] = "dereg" THEN 1 ELSE 0)

\* C15 amended: of the calls that Run and its watcher issue (Run's Register,
\* the Deregister of the watcher's Stop) at most one is outstanding; whenever
\* two registry calls are outstanding one of them is the Deregister of a Stop
\* called by another thread.
C15_OneRegistryCallOfRun ==
    /\ OutstandingCallsOfRun <= 1
    /\ OutstandingRegistryCalls >= 2 => stopPc["ext"] = "dereg"

\* C15 witness: the watcher's Deregister and the Deregister of another
\* thread's Stop are outstanding together
C15_Witness ==
    /\ stopPc["watcher"] = "dereg"
    /\ stopPc["ext"] = "dereg"
    /\ runPc = "wait"

\* C16: Register is called only once every server's start-task and stop-task
\* are spawned; the watcher exists, and signals are sent to c, only after
\* Run has got past registration (Register returned nil, or no registry); so
\* until then c is empty, the watcher has taken no signal and has not entered
\* Stop, and every Deregister so far was called by another thread's Stop.
C16_RunStepOrder ==
    /\ (regCalls > 0 \/ runPc \in {"register", "wait", "returned"}) =>
            \A i \in Servers : startTask[i] # "none" /\ stopTask[i] # "none"
    /\ (watcher # "none" \/ notified) =>
            /\ watcher # "none" /\ notified
            /\ runPc \in {"wait", "returned"}
            /\ registry => (regCalls = 1 /\ ~regFailed)
    /\ ~notified =>
            /\ sigChan = 0
            /\ sigRecv = 0
            /\ stopPc["watcher"] = "idle"
            /\ stopRet["watcher"] = NoRet
            /\ stopInv = extStops
            /\ deregCalls <= extStops

\* C16 witness: a signal came while Register was outstanding and nothing took
\* it: there is no watcher, c is empty and Stop has not been invoked
C16_Witness ==
    /\ registry
    /\ runPc = "register"
    /\ sigSent > 0
    /\ watcher = "none"
    /\ sigChan = 0
    /\ stopInv = 0
    /\ \A i \in Servers : startTask[i] # "none" /\ stopTask[i] # "none"

\* C17: a server's Start can be invoked after that server's Stop; when it
\* was, that Stop was the server's only one and no stop-task is left to
\* invoke another, and for as long as that Start has not returned Run has not
\* returned from g.Wait(): a Start that waits for a Stop still to come keeps
\* Run from ever returning.
C17_StartAfterStop ==
    \A i \in Servers : startAfterStop[i] =>
        /\ startTask[i] \in {"running", "done"}
        /\ stopCalls[i] = 1
        /\ stopTask[i] \in {"calling", "done"}
        /\ ctx # Nil
        /\ startTask[i] = "running" => ~ReturnedFromWait

\* C17 witness: server 2 failed at once, server 1's Stop was invoked and
\* returned before its Start was called; that Start is now running, every
\* other task has ended, and Run is in g.Wait()
C17_Witness ==
    /\ gErr = StartErr(2)
    /\ appCtx = Nil
    /\ startAfterStop[1]
    /\ startTask[1] = "running"
    /\ stopTask[1] = "done"
    /\ stopTask[2] = "done"
    /\ watcher = "done"
    /\ runPc = "wait"

\* C18: Deregister is called only by Stop (never more often than Stop was
\* invoked); when Run, registered, returns after a server failure with Stop
\* never invoked and the parent context live, it returns a server failure and
\* Deregister has not been called: the instance is left registered.
C18_NoDeregisterOnFailure ==
    /\ deregCalls <= stopInv
    /\ deregOk <= deregCalls
    /\ (registry /\ ReturnedFromWait /\ ServerFailures # {}
            /\ stopInv = 0 /\ appCtx = Nil) =>
        /\ runRet \in ServerFailures
        /\ regCalls = 1
        /\ deregCalls = 0

\* C18 witness: with a registry, server 1's Start failed, Run returned that
\* failure, and neither Stop nor Deregister was ever called
C18_Witness ==
    /\ registry
    /\ runPc = "returned"
    /\ runRet = StartErr(1)
    /\ regCalls = 1
    /\ stopInv = 0
    /\ deregCalls = 0
    /\ \A i \in Servers : stopCalls[i] = 1

\* C19: with a registry every invocation of Stop has called Deregister once,
\* whether or not the token had fired (without one Deregister is never
\* called), and Register is called once per Run: not at all before Run gets
\* to it, and exactly once from then on.
C19_DeregisterPerStop ==
    /\ deregCalls = IF registry THEN stopInv ELSE 0
    /\ stopInv = sigRecv + extStops
    /\ regCalls = IF registry /\ runPc \in {"register", "wait", "returned"} THEN 1 ELSE 0

\* C19 witness: the watcher's first Stop deregistered and fired the token,
\* and on the next signal its second Stop has called Deregister again
C19_Witness ==
    /\ registry
    /\ extStops = 0
    /\ sigRecv = 2
    /\ deregCalls = 2
    /\ deregOk = 1
    /\ appCtx = Canceled
    /\ stopPc["watcher"] = "dereg"
    /\ regCalls = 1

====
